---- MODULE Spec2Model ----
(***************************************************************************)
(* Model of the physical-position dashboard script (src/main.py).          *)
(*                                                                         *)
(* The script is a Streamlit page: it is executed top to bottom once when  *)
(* the page opens and again, from the first line, after every change of a  *)
(* sidebar widget.  An uncaught exception ends the execution where it is   *)
(* raised.  Only the value returned by the cached load_data survives from  *)
(* one execution to the next.                                              *)
(*                                                                         *)
(* Text is a sequence of one-character strings, so that cleaning and       *)
(* parsing are computed character by character.  A float is a record       *)
(* [k, v]: k = "fin" with the integer v, k = "inf" with the sign v, or     *)
(* k = "nan".  Finite floats carry Precision significant bits and every    *)
(* arithmetic result is rounded to that many bits (round half to even),    *)
(* as IEEE-754 arithmetic does with 53 bits.  Texts with a decimal point   *)
(* or an exponent are outside the modelled alphabet.                       *)
(* Every row of the file names its business unit; a picker given NaT       *)
(* bounds either raises or returns some date.                              *)
(***************************************************************************)
EXTENDS Integers, Sequences, FiniteSets, TLC

\* ------------------------------------------------------------------ bounds

\* Rows of the CSV file.
MaxRows == 3
\* Executions of the script that are counted; later ones leave the count there.
MaxRuns == 2
\* Characters of a raw numeric cell in the loader specification.
MaxCellLen == 4
\* Significant bits of a float (53 in the program, scaled down).
Precision == 11

\* ------------------------------------------------------------------ floats

Fin(n) == [k |-> "fin", v |-> n]
PosInf == [k |-> "inf", v |-> 1]
NegInf == [k |-> "inf", v |-> -1]
NaN == [k |-> "nan", v |-> 0]

IsNaN(x) == x.k = "nan"
IsFinite(x) == x.k = "fin"

Abs(n) == IF n < 0 THEN -n ELSE n

RECURSIVE Pow2(_)
Pow2(e) == IF e = 0 THEN 1 ELSE 2 * Pow2(e - 1)

\* The spacing of the floats around magnitude a: 1 below 2^Precision, then doubling.
RECURSIVE Quantum(_, _)
Quantum(a, q) == IF a < q * Pow2(Precision) THEN q ELSE Quantum(a, 2 * q)

\* n rounded to the nearest float, ties to the even significand.
RoundToFloat(n) ==
    LET a == Abs(n)
        q == Quantum(a, 1)
        lo == (a \div q) * q
        r == a - lo
        up == \/ 2 * r > q
              \/ 2 * r = q /\ (lo \div q) % 2 = 1
        m == IF up THEN lo + q ELSE lo
    IN  IF n < 0 THEN -m ELSE m

\* Float addition: inf + -inf and anything with nan give nan.
FAdd(x, y) ==
    IF IsNaN(x) \/ IsNaN(y) THEN NaN
    ELSE IF x.k = "inf" /\ y.k = "inf" THEN (IF x.v = y.v THEN x ELSE NaN)
    ELSE IF x.k = "inf" THEN x
    ELSE IF y.k = "inf" THEN y
    ELSE Fin(RoundToFloat(x.v + y.v))

\* x < y on floats; every comparison with nan is false.
FLess(x, y) ==
    /\ ~IsNaN(x) /\ ~IsNaN(y)
    /\ \/ x.k = "fin" /\ y.k = "fin" /\ x.v < y.v
       \/ x.k = "inf" /\ x.v = -1 /\ y # NegInf
       \/ y.k = "inf" /\ y.v = 1 /\ x # PosInf

\* x == y on floats; nan equals nothing, itself included.
FEq(x, y) == ~IsNaN(x) /\ ~IsNaN(y) /\ x = y

\* ------------------------------------------------------------------ text

Digits == {"0", "1", "2", "3", "4", "5", "6", "7", "8", "9"}

DigitValue(c) ==
    CASE c = "0" -> 0 [] c = "1" -> 1 [] c = "2" -> 2 [] c = "3" -> 3
      [] c = "4" -> 4 [] c = "5" -> 5 [] c = "6" -> 6 [] c = "7" -> 7
      [] c = "8" -> 8 [] c = "9" -> 9

AllDigits(s) == \A i \in 1..Len(s) : s[i] \in Digits

RECURSIVE DecimalValue(_)
DecimalValue(s) ==
    IF s = <<>> THEN 0
    ELSE 10 * DecimalValue(SubSeq(s, 1, Len(s) - 1)) + DigitValue(s[Len(s)])

\* str.replace(ch, ''): every occurrence of ch removed.
RemoveChar(s, ch) == SelectSeq(s, LAMBDA c : c # ch)

\* ------------------------------------------------------------------ load_data

\* The columns load_data converts to numbers.
NumericCols ==
    {"Leg-Position", "BBL-Position", "USG-Position", "LBS-Position", "M3-Position",
     "bbl_product_factor", "usg_product_factor", "lbs_product_factor",
     "m3_product_factor", "bbl2_factor", "lbs2_factor", "usg_factor", "m3_2_factor"}

\* Cell texts read_csv reads as a missing value.
NaTexts == {<<>>, <<"n", "a", "n">>, <<"-", "n", "a", "n">>, <<"N", "/", "A">>,
            <<"N", "A">>}

\* read_csv followed by astype(str): a missing value is written "nan".
AsStr(cell) == IF cell \in NaTexts THEN <<"n", "a", "n">> ELSE cell

\* Clean with the commas left in (the first replace forgotten).
CleanSpacesOnly(s) == RemoveChar(s, " ")

\* .str.replace(',', '').str.replace(' ', '').str.strip()
Clean(s) == RemoveChar(RemoveChar(s, ","), " ")

\* pd.to_numeric(errors='coerce') of one text: a signed run of digits is the
\* nearest float, "inf" and "-inf" are the infinities, anything else is nan.
ToNumeric(s) ==
    IF s = <<"i", "n", "f">> THEN PosInf
    ELSE IF s = <<"-", "i", "n", "f">> THEN NegInf
    ELSE IF s # <<>> /\ AllDigits(s) THEN Fin(RoundToFloat(DecimalValue(s)))
    ELSE IF Len(s) >= 2 /\ s[1] = "-" /\ AllDigits(Tail(s))
         THEN Fin(-RoundToFloat(DecimalValue(Tail(s))))
    ELSE NaN

\* .fillna(0)
FillNa(x) == IF IsNaN(x) THEN Fin(0) ELSE x

NormalizeCell(cell) == FillNa(ToNumeric(Clean(AsStr(cell))))

\* load_data(): the file's rows under a RangeIndex (idx), the numeric columns
\* converted.  Column names are modelled already stripped.
load_data(file) ==
    [i \in 1..Len(file) |->
        [idx |-> i - 1,
         bu |-> file[i].bu,
         month |-> file[i].month,
         cells |-> [c \in NumericCols |-> NormalizeCell(file[i].cells[c])]]]

\* ------------------------------------------------------------------ masking

Range(s) == {s[i] : i \in 1..Len(s)}

Column(table, f) == [i \in 1..Len(table) |-> table[i][f]]

\* Series.unique(): the distinct values in order of first appearance.
RECURSIVE Unique(_)
Unique(col) ==
    IF col = <<>> THEN <<>>
    ELSE LET u == Unique(SubSeq(col, 1, Len(col) - 1))
             x == col[Len(col)]
         IN  IF x \in Range(u) THEN u ELSE Append(u, x)

\* The position (from 0, as enumerate counts) of x in u.
IndexOf(u, x) == (CHOOSE i \in 1..Len(u) : u[i] = x) - 1

\* Label numbering from 0 (enumerate's index used as it is).
LabelFromZero(real_bu, i) == "BU-" \o ToString(i)

\* Label built on the real name instead of the constant prefix.
LabelFromName(real_bu, i) == real_bu \o "-" \o ToString(i + 1)

\* f"BU-{i+1}"
Label(real_bu, i) == "BU-" \o ToString(i + 1)

\* {real_bu: f"BU-{i+1}" for i, real_bu in enumerate(unique_bu)}
BuMapping(unique_bu) ==
    [real_bu \in Range(unique_bu) |-> Label(real_bu, IndexOf(unique_bu, real_bu))]

\* Series.map(bu_mapping) on a column all of whose values are keys.
MapColumn(col, mapping) == [i \in 1..Len(col) |-> mapping[col[i]]]

\* Lines 32-34 on a column: build the mapping from it and apply it.
Pseudonymize(col) == MapColumn(col, BuMapping(Unique(col)))

MaskTable(table, mapping) ==
    [i \in 1..Len(table) |-> [table[i] EXCEPT !.bu = mapping[@]]]

\* ------------------------------------------------------------------ dates

\* A month cell of the file is [text |-> characters]; a parsed one is a date
\* [y, m, d], the invalid date being NaT.
NaT == [y |-> 0, m |-> 0, d |-> 0]
Date(y, m, d) == [y |-> y, m |-> m, d |-> d]
IsText(x) == "text" \in DOMAIN x

\* strptime("%m/%Y"): one or two month digits, a slash, four year digits; the
\* whole text must match and the date must be one a Timestamp can hold.
ParseMonthText(s) ==
    LET ok(p) == /\ Len(s) = p + 4
                 /\ p \in {2, 3}
                 /\ s[p] = "/"
                 /\ AllDigits(SubSeq(s, 1, p - 1))
                 /\ AllDigits(SubSeq(s, p + 1, p + 4))
                 /\ DecimalValue(SubSeq(s, 1, p - 1)) \in 1..12
                 /\ DecimalValue(SubSeq(s, p + 1, p + 4)) \in 1678..2261
    IN  IF \E p \in {2, 3} : ok(p)
        THEN LET p == CHOOSE q \in {2, 3} : ok(q)
             IN  Date(DecimalValue(SubSeq(s, p + 1, p + 4)),
                      DecimalValue(SubSeq(s, 1, p - 1)), 1)
        ELSE NaT

\* pd.to_datetime(column, format="%m/%Y", errors="coerce") of one value; a value
\* that is a date already stays as it is.
ToDatetime(x) == IF IsText(x) THEN ParseMonthText(x.text) ELSE x

ParseDates(table) ==
    [i \in 1..Len(table) |-> [table[i] EXCEPT !.month = ToDatetime(@)]]

\* a <= b on dates; a comparison with NaT is false.
DateLE(a, b) ==
    /\ a # NaT /\ b # NaT
    /\ \/ a.y < b.y
       \/ a.y = b.y /\ a.m < b.m
       \/ a.y = b.y /\ a.m = b.m /\ a.d <= b.d

ValidDates(table) == {table[i].month : i \in 1..Len(table)} \ {NaT}

\* Series.min() / Series.max() skip NaT and give NaT when nothing is left.
MinDate(table) ==
    LET D == ValidDates(table)
    IN  IF D = {} THEN NaT ELSE CHOOSE a \in D : \A b \in D : DateLE(a, b)

MaxDate(table) ==
    LET D == ValidDates(table)
    IN  IF D = {} THEN NaT ELSE CHOOSE a \in D : \A b \in D : DateLE(b, a)

\* ------------------------------------------------------------------ sidebar

\* The days of a month the date pickers are tried with.
PickDays == {1, 15}

\* The dates a picker bounded by min_value = lo and max_value = hi offers.
Pickable(lo, hi) ==
    IF lo = NaT THEN {}
    ELSE {x \in {Date(y, m, d) : y \in lo.y..hi.y, m \in 1..12, d \in PickDays} :
            DateLE(lo, x) /\ DateLE(x, hi)}

\* Keep with the category test joined by "or" instead of "and".
KeepOr(row, selected, start, end) ==
    \/ row.bu \in selected
    \/ DateLE(start, row.month) /\ DateLE(row.month, end)

\* One row's filter mask: isin(selected_bu) & (month >= start) & (month <= end).
Keep(row, selected, start, end) ==
    /\ row.bu \in selected
    /\ DateLE(start, row.month)
    /\ DateLE(row.month, end)

\* df[mask]: the rows kept, in order, under their old index.
FilterRows(table, selected, start, end) ==
    SelectSeq(table, LAMBDA row : Keep(row, selected, start, end))

MonthAbbr ==
    <<"Jan", "Feb", "Mar", "Apr", "May", "Jun", "Jul", "Aug", "Sep", "Oct", "Nov", "Dec">>

\* df_filtered["Flow Month Label"] = ....dt.strftime('%b %Y'); NaT gives no text.
AddMonthLabel(rows) ==
    [i \in 1..Len(rows) |->
        [idx |-> rows[i].idx, bu |-> rows[i].bu, month |-> rows[i].month,
         cells |-> rows[i].cells,
         label |-> IF rows[i].month = NaT THEN <<>>
                   ELSE <<MonthAbbr[rows[i].month.m], rows[i].month.y>>]]

\* ------------------------------------------------------------------ aggregates

VolumeCols == <<"M3-Position", "BBL-Position", "LBS-Position">>
TrendCols == <<"M3-Position", "BBL-Position">>
FactorCols == <<"bbl_product_factor", "usg_product_factor", "lbs_product_factor">>

\* Left-to-right float sum; the sum of nothing is 0.0.
RECURSIVE SumSeq(_)
SumSeq(s) ==
    IF s = <<>> THEN Fin(0)
    ELSE FAdd(SumSeq(SubSeq(s, 1, Len(s) - 1)), s[Len(s)])

\* Series.sum(): nan entries are skipped (skipna).
SeriesSum(s) == SumSeq(SelectSeq(s, LAMBDA x : ~IsNaN(x)))

CellColumn(rows, c) == [i \in 1..Len(rows) |-> rows[i].cells[c]]

ColumnSum(rows, c) == SeriesSum(CellColumn(rows, c))

\* Group keys come out sorted.  Labels are compared by their number (the same as
\* text order below BU-10); any other key sorts after them.
KeyRank(key, n) ==
    IF \E k \in 1..n : key = "BU-" \o ToString(k)
    THEN CHOOSE k \in 1..n : key = "BU-" \o ToString(k)
    ELSE n + 1

SortedKeys(K, n) ==
    CHOOSE s \in [1..Cardinality(K) -> K] :
        /\ Range(s) = K
        /\ \A i, j \in 1..Cardinality(K) : i < j => KeyRank(s[i], n) <= KeyRank(s[j], n)

SortedDates(D) ==
    CHOOSE s \in [1..Cardinality(D) -> D] :
        /\ Range(s) = D
        /\ \A i, j \in 1..Cardinality(D) : i < j => DateLE(s[i], s[j])

\* GroupByBU taking each group's first row instead of its sum.
GroupByBUFirst(rows) ==
    LET keys == SortedKeys(Range(Column(rows, "bu")), Len(rows))
    IN  [g \in 1..Len(keys) |->
            [bu |-> keys[g],
             cells |-> [c \in Range(VolumeCols) |->
                 SelectSeq(rows, LAMBDA r : r.bu = keys[g])[1].cells[c]]]]

\* GroupByBU without the grouping: one output row per input row.
GroupPerRow(rows) ==
    [g \in 1..Len(rows) |->
        [bu |-> rows[g].bu,
         cells |-> [c \in Range(VolumeCols) |-> rows[g].cells[c]]]]

\* groupby("Int BU")[VolumeCols].sum().reset_index()
GroupByBU(rows) ==
    LET keys == SortedKeys(Range(Column(rows, "bu")), Len(rows))
    IN  [g \in 1..Len(keys) |->
            [bu |-> keys[g],
             cells |-> [c \in Range(VolumeCols) |->
                 ColumnSum(SelectSeq(rows, LAMBDA r : r.bu = keys[g]), c)]]]

\* groupby("Flow Month")[TrendCols].sum().reset_index(); a NaT key is dropped.
GroupByMonth(rows) ==
    LET keys == SortedDates(Range(Column(rows, "month")) \ {NaT})
    IN  [g \in 1..Len(keys) |->
            [month |-> keys[g],
             cells |-> [c \in Range(TrendCols) |->
                 ColumnSum(SelectSeq(rows, LAMBDA r : r.month = keys[g]), c)]]]

\* Series.mean(): the sum over the count, nan for no rows.  The quotient is
\* kept as the pair (sum, count).
Mean(s) == IF s = <<>> THEN [k |-> "nan", sum |-> Fin(0), count |-> 0]
           ELSE [k |-> "mean", sum |-> SeriesSum(s), count |-> Len(s)]

\* df_filtered[FactorCols].mean().reset_index(), columns renamed.
FactorMeans(rows) ==
    [i \in 1..Len(FactorCols) |->
        [factor |-> FactorCols[i], average |-> Mean(CellColumn(rows, FactorCols[i]))]]

\* The sums the three st.metric calls show.
Metrics(rows) == [c \in Range(VolumeCols) |-> ColumnSum(rows, c)]

\* ------------------------------------------------------------------ insights

M3(row) == row.cells["M3-Position"]

\* sort_values("M3-Position", ascending=False).iloc[0]: a row no other row
\* exceeds; nan sorts last and the order of ties is the sort's.
TopRows(groups) ==
    LET R == Range(groups)
        N == {r \in R : ~IsNaN(M3(r))}
    IN  IF N = {} THEN R ELSE {r \in N : \A q \in N : ~FLess(M3(r), M3(q))}

\* sort_values("M3-Position").iloc[0]
LeastRows(groups) ==
    LET R == Range(groups)
        N == {r \in R : ~IsNaN(M3(r))}
    IN  IF N = {} THEN R ELSE {r \in N : \A q \in N : ~FLess(M3(q), M3(r))}

Withdrawal == "Overall trend shows **net withdrawal** in M3 positions."
Injection == "Overall trend shows **net injection** in M3 positions."

\* if df_filtered['M3-Position'].sum() < 0: ... else: ...
NetDirection(rows) ==
    IF FLess(ColumnSum(rows, "M3-Position"), Fin(0)) THEN Withdrawal ELSE Injection

\* ------------------------------------------------------------------ state

VARIABLES
    csv,          \* the rows of Phys_Position_20250610.csv
    cache,        \* st.cache_data's entry for load_data: <<>> or <<table>>
    runs,         \* executions of the script so far, each of which runs lines
                  \* 32-34; counted up to MaxRuns
    loads,        \* executions of load_data's body so far
    first_run,    \* <<>>, then what the first execution left: <<[df, bu_mapping, cache]>>
    df,           \* the table after lines 29-46
    bu_mapping,   \* line 33
    selected_bu,  \* line 43, as a set
    start_date,   \* line 51
    end_date,     \* line 52
    df_filtered,  \* lines 55-61
    metrics,      \* lines 66-68: <<>> or <<sums>>
    bu_group,     \* line 72
    month_group,  \* line 79
    factor_data,  \* lines 86-87
    top_bu,       \* line 97: <<>> or <<row>>
    least_bu,     \* line 98: <<>> or <<row>>
    info,         \* lines 103-106: "" or the message shown
    exc,          \* "none", or the exception that ended the last execution
    pc            \* "closed" before the page is opened, then "ran"

vars == <<csv, cache, runs, loads, first_run, df, bu_mapping, selected_bu,
          start_date, end_date, df_filtered, metrics, bu_group, month_group,
          factor_data, top_bu, least_bu, info, exc, pc>>

\* ------------------------------------------------------------------ the file

FileRow(bu, month, m3, bbl, lbs, factor) ==
    [bu |-> bu,
     month |-> [text |-> month],
     cells |-> [c \in NumericCols |->
        CASE c = "M3-Position" -> m3
          [] c = "BBL-Position" -> bbl
          [] c = "LBS-Position" -> lbs
          [] c \in Range(FactorCols) -> factor
          [] OTHER -> <<"1">>]]

Jan2024 == <<"0", "1", "/", "2", "0", "2", "4">>
Jan2024Short == <<"1", "/", "2", "0", "2", "4">>
Dec2023 == <<"1", "2", "/", "2", "0", "2", "3">>
IsoJan2024 == <<"2", "0", "2", "4", "-", "0", "1">>

\* The rows a file is made of: thousands separators and stray spaces, negative
\* and zero volumes, missing and non-numeric cells, infinities, a month in
\* another format, and a real unit name that looks like a label.
SampleRows ==
    { FileRow("Acme", Jan2024, <<"1", ",", "0", "0", "0">>, <<"2", ",", "0", "4", "8">>,
              <<"1", ",", "2", "3", "4", " ">>, <<"1">>),
      FileRow("Globex", Jan2024, <<"-", "2", "0", "0">>, <<"1">>,
              <<"-", "i", "n", "f">>, <<"N", "/", "A">>),
      FileRow("Acme", Dec2023, <<"5", "0", "0">>, <<"5", "0", "0">>,
              <<" ", "1", "2">>, <<"2">>),
      FileRow("BU-2", IsoJan2024, <<"N", "/", "A">>, <<"1">>, <<"1">>, <<"1">>),
      FileRow("BU-2", Jan2024Short, <<>>, <<"x">>, <<"i", "n", "f">>, <<"2">>) }

RECURSIVE Tables(_)
Tables(n) ==
    IF n = 0 THEN {<<>>}
    ELSE LET T == Tables(n - 1)
         IN  T \cup {Append(t, r) : t \in {u \in T : Len(u) = n - 1}, r \in SampleRows}

\* The characters a raw numeric cell is made of in the loader specification.
CellAlphabet == {"0", "1", "2", ",", " ", "-", "i", "n", "f", "a"}

CellTexts == UNION {[1..n -> CellAlphabet] : n \in 0..MaxCellLen}

\* ------------------------------------------------------------------ the script

\* A cache that hands out the stored table itself, so that the caller's
\* changes reach it.
CachedShared(stored, changed) == changed

\* What st.cache_data keeps after the caller has changed the table it was
\* given: the stored value, since every call hands out a copy.
CachedValue(stored, changed) == stored

\* The dates a picker gives when the table has no valid month (its bounds and
\* default are NaT) and it does not raise.
FallbackDates == Pickable(Date(2023, 12, 1), Date(2024, 1, 1))

Unset ==
    /\ start_date' = NaT /\ end_date' = NaT
    /\ df_filtered' = <<>> /\ metrics' = <<>> /\ bu_group' = <<>>
    /\ month_group' = <<>> /\ factor_data' = <<>>
    /\ top_bu' = <<>> /\ least_bu' = <<>> /\ info' = ""

\* Lines 55-106 for the selection (selected, start, end) on table.  (Each
\* intermediate value is bound once, by \E over a singleton.)
Body(table, selected, start, end) ==
    \E filtered \in {AddMonthLabel(FilterRows(table, selected, start, end))} :
    \E groups \in {GroupByBU(filtered)} :
        /\ start_date' = start /\ end_date' = end
        /\ df_filtered' = filtered
        /\ metrics' = <<Metrics(filtered)>>
        /\ bu_group' = groups
        /\ month_group' = GroupByMonth(filtered)
        /\ factor_data' = FactorMeans(filtered)
        /\ IF groups = <<>>
           THEN \* .iloc[0] of an empty frame: IndexError at line 97
                /\ top_bu' = <<>> /\ least_bu' = <<>> /\ info' = ""
                /\ exc' = "IndexError"
           ELSE \E t \in TopRows(groups), l \in LeastRows(groups) :
                /\ top_bu' = <<t>> /\ least_bu' = <<l>>
                /\ info' = NetDirection(filtered)
                /\ exc' = "none"

\* One execution of the script, top to bottom.  w is what the sidebar holds:
\* <<>> when nothing has been set (every widget gives its default), else
\* <<[bu, start, end]>>.
Script(w) ==
    \E loaded \in {IF cache = <<>> THEN load_data(csv) ELSE cache[1]} :
    \E mapping \in {BuMapping(Unique(Column(loaded, "bu")))} :
    \E table \in {ParseDates(MaskTable(loaded, mapping))} :
    \E selected \in {IF w = <<>> THEN Range(Unique(Column(table, "bu"))) ELSE w[1].bu} :
    \E min_date \in {MinDate(table)}, max_date \in {MaxDate(table)} :
    \E kept \in {<<CachedValue(loaded, table)>>} :
        /\ runs' = IF runs < MaxRuns THEN runs + 1 ELSE runs
        /\ loads' = IF cache = <<>> THEN loads + 1 ELSE loads
        /\ cache' = kept
        /\ df' = table
        /\ bu_mapping' = mapping
        /\ selected_bu' = selected
        /\ first_run' = IF first_run = <<>>
                        THEN <<[df |-> table, bu_mapping |-> mapping, cache |-> kept]>>
                        ELSE first_run
        /\ pc' = "ran"
        /\ csv' = csv
        /\ IF min_date = NaT
           THEN \/ exc' = "date_input" /\ Unset
                \/ \E s \in FallbackDates, e \in FallbackDates : Body(table, selected, s, e)
           ELSE Body(table, selected,
                     IF w = <<>> THEN min_date ELSE w[1].start,
                     IF w = <<>> THEN max_date ELSE w[1].end)

\* The page is opened: the first execution, every widget at its default.
OpenPage ==
    /\ pc = "closed"
    /\ Script(<<>>)

\* Each change of one widget executes the script again.

\* The user adds or removes one unit in the multiselect.
ToggleBU ==
    /\ pc = "ran"
    /\ \E b \in Range(Unique(Column(df, "bu"))) :
          Script(<<[bu |-> IF b \in selected_bu THEN selected_bu \ {b}
                           ELSE selected_bu \cup {b},
                    start |-> start_date, end |-> end_date]>>)

\* The user picks another start date, within the picker's bounds.
PickStart ==
    /\ pc = "ran"
    /\ \E s \in Pickable(MinDate(df), MaxDate(df)) \ {start_date} :
          Script(<<[bu |-> selected_bu, start |-> s, end |-> end_date]>>)

\* The user picks another end date, within the picker's bounds.
PickEnd ==
    /\ pc = "ran"
    /\ \E e \in Pickable(MinDate(df), MaxDate(df)) \ {end_date} :
          Script(<<[bu |-> selected_bu, start |-> start_date, end |-> e]>>)

Blank ==
    /\ cache = <<>> /\ runs = 0 /\ loads = 0 /\ first_run = <<>>
    /\ df = <<>> /\ bu_mapping = <<>> /\ selected_bu = {}
    /\ start_date = NaT /\ end_date = NaT
    /\ df_filtered = <<>> /\ metrics = <<>> /\ bu_group = <<>>
    /\ month_group = <<>> /\ factor_data = <<>>
    /\ top_bu = <<>> /\ least_bu = <<>> /\ info = ""
    /\ exc = "none" /\ pc = "closed"

Init == csv \in Tables(MaxRows) /\ Blank

Next == OpenPage \/ ToggleBU \/ PickStart \/ PickEnd

Spec == Init /\ [][Next]_vars

\* ------------------------------------------------------------------ the loader alone

\* A file of one row whose numeric cells all hold the same text.
InitLoad ==
    /\ csv \in {<<FileRow("Acme", Jan2024, t, t, t, t)>> : t \in CellTexts}
    /\ Blank

\* df = load_data() on an empty cache (line 29).
CallLoadData ==
    /\ cache = <<>>
    /\ cache' = <<load_data(csv)>>
    /\ df' = load_data(csv)
    /\ loads' = loads + 1
    /\ UNCHANGED <<csv, runs, first_run, bu_mapping, selected_bu, start_date,
                   end_date, df_filtered, metrics, bu_group, month_group, factor_data,
                   top_bu, least_bu, info, exc, pc>>

NextLoad == CallLoadData

SpecLoad == InitLoad /\ [][NextLoad]_vars

\* ------------------------------------------------------------------ claims

\* The last execution got past the date pickers and computed the filter.
Filtered == pc = "ran" /\ exc # "date_input"

\* The table has a valid month, so the date pickers have bounds.
Dated == ValidDates(df) # {}

NoAverage(f) == f.average.k = "nan"

\* C1 (as claimed): when the selection matches no row the execution completes
\* without raising, CategoryTotals has no rows, no factor mean and no top or
\* least insight is given.
C1_EmptySelectionCompletes ==
    (Filtered /\ Dated /\ df_filtered = <<>>) =>
        /\ exc = "none"
        /\ bu_group = <<>>
        /\ \A i \in 1..Len(factor_data) : NoAverage(factor_data[i])
        /\ top_bu = <<>> /\ least_bu = <<>>

\* Months counted from year 0, for comparing dates by month alone.
MonthIndex(x) == 12 * x.y + x.m

\* A filtered row without the label column line 61 adds.
AsTableRow(r) == [idx |-> r.idx, bu |-> r.bu, month |-> r.month, cells |-> r.cells]

\* C2: every row of FilteredTable is a row of the normalized table (none
\* twice), its category is selected, its month is valid and lies between the
\* start month and the end month, both inclusive; with start and end in one
\* month only rows of that month are returned.
C2_FilterSound ==
    Filtered =>
        /\ \A i \in 1..Len(df_filtered) :
              /\ \E j \in 1..Len(df) : df[j] = AsTableRow(df_filtered[i])
              /\ df_filtered[i].bu \in selected_bu
              /\ df_filtered[i].month # NaT
              /\ MonthIndex(start_date) <= MonthIndex(df_filtered[i].month)
              /\ MonthIndex(df_filtered[i].month) <= MonthIndex(end_date)
              /\ MonthIndex(start_date) = MonthIndex(end_date)
                    => MonthIndex(df_filtered[i].month) = MonthIndex(start_date)
        /\ \A i, j \in 1..Len(df_filtered) :
              i < j => df_filtered[i].idx < df_filtered[j].idx

\* C2's case: start and end in one month, a row kept, a row of a selected
\* category left out by the dates and a row left out by its category.
C2_Witness ==
    /\ Filtered /\ Dated
    /\ MonthIndex(start_date) = MonthIndex(end_date)
    /\ df_filtered # <<>>
    /\ \E j \in 1..Len(df) :
          /\ df[j].bu \in selected_bu
          /\ \A i \in 1..Len(df_filtered) : df_filtered[i].idx # df[j].idx
    /\ \E j \in 1..Len(df) : df[j].bu \notin selected_bu

\* The characters of t that are neither a comma nor a space.
Significant(t) == SelectSeq(t, LAMBDA c : c \notin {",", " "})

SignedDigits(t) ==
    \/ t # <<>> /\ \A i \in 1..Len(t) : t[i] \in Digits
    \/ Len(t) >= 2 /\ t[1] = "-" /\ \A i \in 2..Len(t) : t[i] \in Digits

SpellsInfinity(t) == t \in {<<"i", "n", "f">>, <<"-", "i", "n", "f">>}

\* C3 (as claimed): after load_data every value of the numeric columns is a
\* finite number, and a cell that does not parse has become 0.0.
C3_AllFinite ==
    cache # <<>> =>
        \A i \in 1..Len(csv) : \A c \in NumericCols :
            /\ IsFinite(cache[1][i].cells[c])
            /\ (~SignedDigits(Significant(csv[i].cells[c]))
                /\ ~SpellsInfinity(Significant(csv[i].cells[c])))
                  => cache[1][i].cells[c] = Fin(0)

\* The real names of the file's rows, in row order.
RealNames == [i \in 1..Len(csv) |-> csv[i].bu]

FirstRow(v) == CHOOSE i \in 1..Len(csv) : csv[i].bu = v /\ \A j \in 1..(i - 1) : csv[j].bu # v

\* C4: the pseudonym map is a bijection between the distinct category values
\* of the whole file and BU-1..BU-n; the k-th distinct value in row order gets
\* BU-k, and every row carries its value's label.
C4_PseudonymBijection ==
    pc = "ran" =>
        /\ DOMAIN bu_mapping = Range(RealNames)
        /\ \A v \in DOMAIN bu_mapping :
              bu_mapping[v] =
                  "BU-" \o ToString(Cardinality({csv[j].bu : j \in 1..FirstRow(v)}))
        /\ \A v, w \in DOMAIN bu_mapping : v # w => bu_mapping[v] # bu_mapping[w]
        /\ {bu_mapping[v] : v \in DOMAIN bu_mapping} =
              {"BU-" \o ToString(k) : k \in 1..Cardinality(Range(RealNames))}
        /\ Len(df) = Len(csv)
        /\ \A i \in 1..Len(csv) : df[i].bu = bu_mapping[csv[i].bu]

\* C4's case: three rows, two distinct names of which one repeats, the first
\* of them a real name that reads like another label.
C4_Witness ==
    /\ pc = "ran"
    /\ Len(csv) = 3
    /\ csv[1].bu = "BU-2" /\ csv[2].bu = "Acme" /\ csv[3].bu = "BU-2"
    /\ bu_mapping["BU-2"] = "BU-1" /\ bu_mapping["Acme"] = "BU-2"

C6_ReapplicationKeepsLabels ==
    pc = "ran" => Pseudonymize(Column(df, "bu")) = Column(df, "bu")

\* C6's case: a masked column of several labels, one of them repeated, that
\* differs from the real names it came from.
C6_Witness ==
    /\ pc = "ran"
    /\ Len(df) = 3
    /\ Cardinality(Range(Column(df, "bu"))) = 2
    /\ Column(df, "bu") # RealNames
    /\ RealNames[1] = "BU-2"

\* The total of column c over CategoryTotals.
GroupTotal(c) == SeriesSum([g \in 1..Len(bu_group) |-> bu_group[g].cells[c]])

\* The total of column c taken directly over FilteredTable (lines 66-68).
DirectTotal(c) == metrics[1][c]

FilteredValues(c) == CellColumn(df_filtered, c)

RECURSIVE AbsTotal(_)
AbsTotal(s) ==
    IF s = <<>> THEN 0
    ELSE AbsTotal(Tail(s)) + (IF IsFinite(Head(s)) THEN Abs(Head(s).v) ELSE 0)

\* No addition over s can round or meet infinities of opposite sign: the
\* finite magnitudes total at most 2^Precision and the infinities agree.
SumsExactly(s) ==
    /\ AbsTotal(s) <= Pow2(Precision)
    /\ ~(PosInf \in Range(s) /\ NegInf \in Range(s))

\* C7 (as claimed, on finite volumes): for each volume column, the sum of the
\* column over CategoryTotals equals the sum of the column over FilteredTable.
C7_TotalsEqual ==
    Filtered =>
        \A c \in Range(VolumeCols) :
            (\A i \in 1..Len(df_filtered) : IsFinite(df_filtered[i].cells[c]))
                => FEq(GroupTotal(c), DirectTotal(c))

\* C7 (amended): the two sums are equal whenever no addition rounds, that is
\* whenever the column's magnitudes total at most 2^Precision and it holds no
\* two infinities of opposite sign.
C7_TotalsEqualWhenExact ==
    Filtered =>
        \A c \in Range(VolumeCols) :
            SumsExactly(FilteredValues(c)) => FEq(GroupTotal(c), DirectTotal(c))

\* C7's case: three filtered rows in two categories whose M3 volumes 1000,
\* 500 and -200 total 1300.
C7_Witness ==
    /\ Filtered
    /\ Len(df_filtered) = 3 /\ Len(bu_group) = 2
    /\ SumsExactly(FilteredValues("M3-Position"))
    /\ DirectTotal("M3-Position") = Fin(1300)
    /\ GroupTotal("M3-Position") = Fin(1300)

GroupKeys == {bu_group[g].bu : g \in 1..Len(bu_group)}

\* C8 (as claimed): CategoryTotals has exactly one row per selected category.
C8_RowPerSelected ==
    Filtered => GroupKeys = selected_bu /\ Len(bu_group) = Cardinality(selected_bu)

\* C8 (amended): CategoryTotals has exactly one row per category that occurs
\* in FilteredTable; a selected category with no surviving row has none.
C8_RowPerFilteredCategory ==
    Filtered =>
        /\ GroupKeys = {df_filtered[i].bu : i \in 1..Len(df_filtered)}
        /\ Len(bu_group) = Cardinality(GroupKeys)
        /\ GroupKeys \subseteq selected_bu

\* C8's case: a category with two surviving rows has one row, and a selected
\* category whose rows all lie outside the date range has none.
C8_Witness ==
    /\ Filtered /\ Dated
    /\ \E g \in 1..Len(bu_group) :
          Cardinality({i \in 1..Len(df_filtered) : df_filtered[i].bu = bu_group[g].bu}) = 2
    /\ \E b \in selected_bu :
          /\ b \notin GroupKeys
          /\ \E j \in 1..Len(df) : df[j].bu = b /\ df[j].month # NaT

\* The M3 sum over FilteredTable is at least 0.
NonNegative(x) == FLess(Fin(0), x) \/ FEq(x, Fin(0))

\* C9 (as claimed): exactly one net-direction message is shown; it is the
\* injection message when the M3 sum over FilteredTable is at least 0, the
\* zero-row case included, and the withdrawal message when the sum is below 0.
C9_NetDirectionShown ==
    (Filtered /\ Dated) =>
        /\ info \in {Injection, Withdrawal}
        /\ NonNegative(ColumnSum(df_filtered, "M3-Position")) => info = Injection
        /\ FLess(ColumnSum(df_filtered, "M3-Position"), Fin(0)) => info = Withdrawal

\* t is a number written with digits, commas, spaces and at most a leading minus.
IsSeparatedNumber(t) ==
    /\ \A i \in 1..Len(t) : t[i] \in Digits \cup {",", " ", "-"}
    /\ \E i \in 1..Len(t) : t[i] \in Digits
    /\ \A i \in 1..Len(t) : t[i] = "-" => \A j \in 1..(i - 1) : t[j] \in {",", " "}

\* The number the digits of t spell, read left to right.
RECURSIVE DigitsNumber(_, _)
DigitsNumber(t, acc) ==
    IF t = <<>> THEN acc
    ELSE DigitsNumber(Tail(t),
                      IF Head(t) \in Digits THEN 10 * acc + DigitValue(Head(t)) ELSE acc)

\* x is the float nearest to the integer n: n itself below 2^Precision, else
\* within half the float spacing at n.
NearestTo(x, n) ==
    /\ IsFinite(x)
    /\ Abs(n) < Pow2(Precision) => x.v = n
    /\ 2 * Abs(x.v - n) <= Quantum(Abs(n), 1)

\* C10: a cell that is a number written with commas and spaces is normalized
\* to the number its digits spell (negated after a minus), as a float.
C10_SeparatedNumberParsed ==
    cache # <<>> =>
        \A i \in 1..Len(csv) : \A c \in NumericCols :
            IsSeparatedNumber(csv[i].cells[c]) =>
                NearestTo(cache[1][i].cells[c],
                          IF "-" \in Range(csv[i].cells[c])
                          THEN -DigitsNumber(csv[i].cells[c], 0)
                          ELSE DigitsNumber(csv[i].cells[c], 0))

\* C10's case: the cell "1,2 " has been normalized to 12.0.
C10_Witness ==
    /\ cache # <<>>
    /\ csv[1].cells["M3-Position"] = <<"1", ",", "2", " ">>
    /\ cache[1][1].cells["M3-Position"] = Fin(12)

====
